---- MODULE Spec2Model ----
(***************************************************************************)
(* Model of cx93001.py: the CX93001 voice-modem driver.                    *)
(*                                                                         *)
(* Python values are modelled with their type: a str or bytes object is a  *)
(* record [t |-> "str" | "bytes", v |-> <<characters>>].  A character is a  *)
(* one-character string; the control bytes DLE (0x10) and ETX (0x03) are   *)
(* written "DLE" and "ETX".  The serial port is the queue rx of the values *)
(* the next calls of readline()/read() return (b'' is a read timeout; an   *)
(* exhausted queue times out as well) and the list tx of the values        *)
(* written.                                                                *)
(***************************************************************************)
EXTENDS Integers, Sequences, FiniteSets, TLC

VARIABLES
  rx,        \* serial input not yet read: what the next reads return
  rx0,       \* the serial input as it was when the operation started
  tx,        \* everything written to the serial port, in order
  at_pc,     \* position inside __at: "idle", "write", "while", "expected", "ret"
  cmd,       \* __at: parameter cmd
  expected,  \* __at: parameter expected
  resp,      \* __at: local resp
  at_ret,    \* __at: returned value
  op,        \* the public operation that is running
  pc,        \* position inside the public operation
  step,      \* index of the command of the operation's sequence being sent
  rets,      \* the values __at returned to the operation so far
  result,    \* outcome of the operation
  rings,     \* wait_call: local rings
  max_rings_ignore_cid,  \* wait_call: parameter
  frames,    \* record_call: local frames (list of chunks)
  nchunks,   \* record_call: number of read(chunksize) calls made
  joined,    \* record_call: the bytes handed to wave.writeframes
  now,       \* time.time(), in clock ticks
  start,     \* record_call: start / play_audio_obj: start_time
  timeout,   \* record_call / play_audio_obj: timeout, in clock ticks
  wavobj,    \* play_audio_obj: the wave object (frames left to read, rate)
  data,      \* play_audio_obj: local data
  number,    \* dial: parameter number
  sequence,  \* play_tones: parameter sequence
  det_data,  \* __detect_end: parameter data
  det_ret    \* __detect_end: returned value

transport == <<rx, rx0, tx>>
atframe   == <<at_pc, cmd, expected, resp, at_ret>>
opframe   == <<op, pc, step, rets, result>>
waitvars  == <<rings, max_rings_ignore_cid>>
recvars   == <<frames, nchunks, joined>>
clock     == <<now, start, timeout>>
playvars  == <<wavobj, data>>
callvars  == <<number, sequence, det_data, det_ret>>
vars == <<rx, rx0, tx, at_pc, cmd, expected, resp, at_ret, op, pc, step, rets,
          result, rings, max_rings_ignore_cid, frames, nchunks, joined, now,
          start, timeout, wavobj, data, number, sequence, det_data, det_ret>>

----------------------------------------------------------------------------
(* Bounds of the model *)

\* longest serial input handed to a single __at call
MaxLines == 4

\* longest serial input handed to wait_call
MaxWaitLines == 4

\* largest max_rings_ignore_cid tried
MaxRings == 3

\* longest audio stream (in chunks) the modem delivers to record_call
MaxChunks == 3

\* largest timeout of record_call tried, in serial read timeouts
MaxTimeout == 2

\* largest timeout of play_audio_obj tried, in pacing intervals
MaxPlayTimeout == 6

\* the most a loop iteration of play_audio_obj takes beyond its sleep, in ms
MaxJitterMs == 1

\* longest buffer handed to __detect_end
MaxBuffer == 3

\* longest number handed to dial, in digits
MaxDigits == 2

\* longest sequence handed to play_tones
MaxTones == 2

----------------------------------------------------------------------------
(* Python str / bytes values *)

CR == "\r"
LF == "\n"

Str(v) == [t |-> "str", v |-> v]

Bytes(v) == [t |-> "bytes", v |-> v]

\* str.encode(): the bytes object with the same (ASCII) characters
encode(x) == [t |-> "bytes", v |-> x.v]

\* bytes.decode(): the str object with the same (ASCII) characters
decode(x) == [t |-> "str", v |-> x.v]

\* x + y on two str or two bytes objects
Plus(x, y) == [t |-> x.t, v |-> x.v \o y.v]

\* old in x, on the characters: old occurs in x as a substring
Contains(x, old) ==
  \E i \in 1..(Len(x) - Len(old) + 1) : SubSeq(x, i, i + Len(old) - 1) = old

\* x.replace(old, '') on the characters: every non-overlapping occurrence of
\* old, found from the left, is removed (old is not empty)
RECURSIVE Remove(_, _)
Remove(x, old) ==
  IF Len(x) < Len(old) THEN x
  ELSE IF SubSeq(x, 1, Len(old)) = old
         THEN Remove(SubSeq(x, Len(old) + 1, Len(x)), old)
         ELSE <<Head(x)>> \o Remove(Tail(x), old)

\* all sequences over S of length at most n
RECURSIVE SeqsUpTo(_, _)
SeqsUpTo(S, n) ==
  IF n = 0 THEN {<<>>}
  ELSE LET shorter == SeqsUpTo(S, n - 1)
       IN  shorter \cup {Append(q, x) : q \in {r \in shorter : Len(r) = n - 1}, x \in S}

----------------------------------------------------------------------------
(* AT commands and responses used by the driver *)

OK      == Str(<<"O", "K">>)
CONNECT == Str(<<"C", "O", "N", "N", "E", "C", "T">>)
AT      == Str(<<"A", "T">>)
ATE1    == Str(<<"A", "T", "E", "1">>)
ATF0    == Str(<<"A", "T", "&", "F", "0">>)
ATV1    == Str(<<"A", "T", "V", "1">>)
ATVCID1 == Str(<<"A", "T", "+", "V", "C", "I", "D", "=", "1">>)
ATA     == Str(<<"A", "T", "A">>)
ATH     == Str(<<"A", "T", "H">>)
ATFCLASS8 == Str(<<"A", "T", "+", "F", "C", "L", "A", "S", "S", "=", "8">>)
ATVSM   == Str(<<"A", "T", "+", "V", "S", "M", "=", "1", ",", "8", "0", "0", "0", ",", "0", ",", "0">>)
ATVLS1  == Str(<<"A", "T", "+", "V", "L", "S", "=", "1">>)
ATVSD   == Str(<<"A", "T", "+", "V", "S", "D", "=", "1", "2", "8", ",", "5", "0">>)
ATVRX   == Str(<<"A", "T", "+", "V", "R", "X">>)
ATVTX   == Str(<<"A", "T", "+", "V", "T", "X">>)
ATD     == Str(<<"A", "T", "D">>)
ATVTS   == Str(<<"A", "T", "+", "V", "T", "S", "=">>)

\* the bytes 0x10 and 0x03
DLE == "DLE"
ETX == "ETX"

----------------------------------------------------------------------------
(* Transport: serial.Serial with timeout = 3 *)

\* the value readline() / read(n) returns: the next queued value, b'' on timeout
ReadValue(q) == IF q = <<>> THEN Bytes(<<>>) ELSE Head(q)

\* the serial input left after that read
ReadRest(q) == IF q = <<>> THEN q ELSE Tail(q)

\* self.__con.timeout = 3 (seconds), in milliseconds: the longest a read blocks
SerialTimeoutMs == 3000

\* how long a read that returned r may have blocked: the whole timeout when
\* nothing arrived, anything up to it otherwise
ReadDurations(r) ==
  IF r = Bytes(<<>>) THEN {SerialTimeoutMs} ELSE {0, SerialTimeoutMs}

----------------------------------------------------------------------------
(* __at(cmd, expected='OK'), lines 93-112 *)

\* (cmd + "\r").encode(), the bytes written
CommandBytes(c) == encode(Plus(c, Str(<<CR>>)))

\* (cmd + '\r\r\n').encode(), the echo the modem sends back
EchoBytes(c) == encode(Plus(c, Str(<<CR, CR, LF>>)))

\* (expected + '\r\n').encode(), the result line waited for
ExpectedBytes(e) == encode(Plus(e, Str(<<CR, LF>>)))

\* the condition of the while loop: resp == b'\r\n' or resp == b'OK\r\n'
StrayNever(r) == FALSE
StrayAlsoTimeout(r) ==
  r = Bytes(<<CR, LF>>) \/ r = Bytes(<<"O", "K", CR, LF>>) \/ r = Bytes(<<>>)
IsStray(r) == r = Bytes(<<CR, LF>>) \/ r = Bytes(<<"O", "K", CR, LF>>)

\* line 104: resp != (cmd + '\r\r\n').encode()
EchoMismatchIgnored(r, c) == FALSE
EchoMismatch(r, c) == r # EchoBytes(c)

\* line 107: resp == (expected + '\r\n').encode()
ResultAlwaysTrue(r, e) == TRUE
ResultMatches(r, e) == r = ExpectedBytes(e)

\* lines 100-101: write the command, read the first line
at_write ==
  /\ at_pc = "write"
  /\ tx' = Append(tx, CommandBytes(cmd))
  /\ resp' = ReadValue(rx)
  /\ rx' = ReadRest(rx)
  /\ at_pc' = "while"
  /\ UNCHANGED <<rx0, cmd, expected, at_ret>>
  /\ UNCHANGED <<opframe, waitvars, recvars, clock, playvars>>
  /\ UNCHANGED callvars

\* lines 102-103: one iteration of the loop that skips stray lines
at_skip ==
  /\ at_pc = "while"
  /\ IsStray(resp)
  /\ resp' = ReadValue(rx)
  /\ rx' = ReadRest(rx)
  /\ UNCHANGED <<rx0, tx, at_pc, cmd, expected, at_ret>>
  /\ UNCHANGED <<opframe, waitvars, recvars, clock, playvars>>
  /\ UNCHANGED callvars

\* lines 104-106: the echo check; on a match the result line is read
at_echo ==
  /\ at_pc = "while"
  /\ ~IsStray(resp)
  /\ IF EchoMismatch(resp, cmd)
       THEN /\ at_ret' = FALSE
            /\ at_pc' = "ret"
            /\ UNCHANGED <<rx, resp>>
       ELSE /\ resp' = ReadValue(rx)
            /\ rx' = ReadRest(rx)
            /\ at_pc' = "expected"
            /\ UNCHANGED at_ret
  /\ UNCHANGED <<rx0, tx, cmd, expected>>
  /\ UNCHANGED <<opframe, waitvars, recvars, clock, playvars>>
  /\ UNCHANGED callvars

\* lines 107-112: the result line decides the returned value
at_expected ==
  /\ at_pc = "expected"
  /\ at_ret' = ResultMatches(resp, expected)
  /\ at_pc' = "ret"
  /\ UNCHANGED <<transport, cmd, expected, resp>>
  /\ UNCHANGED <<opframe, waitvars, recvars, clock, playvars>>
  /\ UNCHANGED callvars

at_step == at_write \/ at_skip \/ at_echo \/ at_expected

----------------------------------------------------------------------------
(* Values of the variables an operation does not use *)

IdleOp ==
  /\ op = "none" /\ pc = "none" /\ step = 0 /\ rets = <<>>
  /\ result = [kind |-> "none", number |-> <<>>]

IdleWait == rings = 0 /\ max_rings_ignore_cid = 0

IdleRecord == frames = <<>> /\ nchunks = 0 /\ joined = Bytes(<<>>)

IdleClock == now = 0 /\ start = 0 /\ timeout = 0

IdleCall ==
  /\ number = Str(<<>>) /\ sequence = Str(<<>>)
  /\ det_data = Bytes(<<>>) /\ det_ret = FALSE

IdlePlay ==
  /\ wavobj = [nframes |-> 0, framerate |-> 1, pos |-> 0]
  /\ data = [t |-> "bytes", len |-> 0]

----------------------------------------------------------------------------
(* A single call of __at on an arbitrary serial input *)

SendCommands == {AT, ATA}
SendExpected == {OK, CONNECT}

\* what the modem may deliver while c is sent and e is waited for
SendLines(c, e) ==
  { Bytes(<<CR, LF>>), Bytes(<<"O", "K", CR, LF>>), Bytes(<<>>),
    EchoBytes(c), ExpectedBytes(e),
    encode(Plus(c, Str(<<CR, LF>>))),
    Bytes(<<"E", "R", "R", "O", "R", CR, LF>>) }

InitSend ==
  /\ cmd \in SendCommands
  /\ expected \in SendExpected
  /\ rx \in SeqsUpTo(SendLines(cmd, expected), MaxLines)
  /\ rx0 = rx
  /\ tx = <<>>
  /\ at_pc = "write"
  /\ resp = Bytes(<<>>)
  /\ at_ret = FALSE
  /\ IdleOp /\ IdleWait /\ IdleRecord /\ IdleClock /\ IdlePlay
  /\ IdleCall

NextSend == at_write \/ at_skip \/ at_echo \/ at_expected

SpecSend == InitSend /\ [][NextSend]_vars

----------------------------------------------------------------------------
(* __init__, lines 31-72: open the port, then six initialization commands *)

\* the commands of lines 61-72, in order; each is sent with expected = 'OK'
InitCommands == <<ATE1, AT, ATF0, ATV1, ATE1, ATVCID1>>

\* "if not self.__at(...)": the condition that raises
InitFailsNever(r) == FALSE
InitFails(r) == ~r

\* lines 56-59: open the serial port; SerialException aborts the construction
init_open ==
  /\ op = "__init__" /\ pc = "open"
  /\ \E opened \in BOOLEAN :
       IF opened
         THEN pc' = "commands" /\ UNCHANGED result
         ELSE /\ pc' = "done"
              /\ result' = [result EXCEPT !.kind = "CouldNotInitializeException"]
  /\ UNCHANGED <<op, step, rets>>
  /\ UNCHANGED <<transport, atframe, waitvars, recvars, clock, playvars>>
  /\ UNCHANGED callvars

\* lines 61, 63, 65, 67, 69, 71: the call self.__at(InitCommands[step])
init_at ==
  /\ op = "__init__" /\ pc = "commands" /\ at_pc = "idle"
  /\ cmd' = InitCommands[step]
  /\ expected' = OK
  /\ at_pc' = "write"
  /\ UNCHANGED <<resp, at_ret>>
  /\ UNCHANGED <<transport, opframe, waitvars, recvars, clock, playvars>>
  /\ UNCHANGED callvars

\* lines 61-72: the test of the returned value; False raises
\* CouldNotInitializeException, True goes on to the next command
init_check ==
  /\ op = "__init__" /\ pc = "commands" /\ at_pc = "ret"
  /\ rets' = Append(rets, at_ret)
  /\ at_pc' = "idle"
  /\ IF InitFails(at_ret)
       THEN /\ pc' = "done"
            /\ result' = [result EXCEPT !.kind = "CouldNotInitializeException"]
            /\ UNCHANGED step
       ELSE IF step = Len(InitCommands)
              THEN /\ pc' = "done"
                   /\ result' = [result EXCEPT !.kind = "constructed"]
                   /\ UNCHANGED step
              ELSE /\ step' = step + 1
                   /\ UNCHANGED <<pc, result>>
  /\ UNCHANGED <<op, cmd, expected, resp, at_ret>>
  /\ UNCHANGED <<transport, waitvars, recvars, clock, playvars>>
  /\ UNCHANGED callvars

\* how the modem may answer one command c that expects e
ReplyKinds == {"good", "stray", "badecho", "error", "timeout"}

Reply(c, e, kind) ==
  CASE kind = "good"    -> <<EchoBytes(c), ExpectedBytes(e)>>
    [] kind = "stray"   -> <<Bytes(<<CR, LF>>), EchoBytes(c), ExpectedBytes(e)>>
    [] kind = "badecho" -> <<encode(Plus(c, Str(<<CR, LF>>))), ExpectedBytes(e)>>
    [] kind = "error"   -> <<EchoBytes(c), Bytes(<<"E", "R", "R", "O", "R", CR, LF>>)>>
    [] kind = "timeout" -> <<Bytes(<<>>)>>

\* the serial input made of one reply per command of cs, of the kinds ks
RECURSIVE Script(_, _)
Script(cs, ks) ==
  IF cs = <<>> THEN <<>>
  ELSE Reply(Head(cs)[1], Head(cs)[2], Head(ks)) \o Script(Tail(cs), Tail(ks))

InitScriptCommands == [i \in 1..Len(InitCommands) |-> <<InitCommands[i], OK>>]

InitCtor ==
  /\ op = "__init__" /\ pc = "open" /\ step = 1 /\ rets = <<>>
  /\ result = [kind |-> "none", number |-> <<>>]
  /\ \E ks \in [1..Len(InitCommands) -> ReplyKinds] :
       rx = Script(InitScriptCommands, ks)
  /\ rx0 = rx
  /\ tx = <<>>
  /\ at_pc = "idle" /\ cmd = Str(<<>>) /\ expected = OK
  /\ resp = Bytes(<<>>) /\ at_ret = FALSE
  /\ IdleWait /\ IdleRecord /\ IdleClock /\ IdlePlay
  /\ IdleCall

NextCtor ==
  \/ init_open \/ init_at \/ init_check
  \/ at_write \/ at_skip \/ at_echo \/ at_expected

SpecCtor == InitCtor /\ [][NextCtor]_vars

----------------------------------------------------------------------------
(* wait_call(max_rings_ignore_cid=4), lines 123-141 *)

NMBR == Str(<<"N", "M", "B", "R">>)
RING == Str(<<"R", "I", "N", "G">>)
NMBR_EQ == Str(<<"N", "M", "B", "R", " ", "=", " ">>)

\* line 132: readline().decode().replace('\r\n', '')
LineData(r) == Str(Remove(decode(r).v, <<CR, LF>>))

\* line 135: 'NMBR' in data
HasNumberNever(d) == FALSE
HasNumber(d) == Contains(d.v, NMBR.v)

\* line 136: data.replace('NMBR = ', '')
CallerNumber(d) == Str(Remove(d.v, NMBR_EQ.v))

\* line 137: 'RING' in data
HasRingAnyLine(d) == TRUE
HasRing(d) == Contains(d.v, RING.v)

\* line 140: rings >= max_rings_ignore_cid
RingsReachedStrictly(r, m) == r > m
RingsReached(r, m) == r >= m

\* lines 131-141: one iteration of the loop of wait_call
wait_call_iter ==
  /\ op = "wait_call" /\ pc = "loop"
  /\ rx' = ReadRest(rx)
  /\ LET d == LineData(ReadValue(rx))
     IN  IF d # Str(<<>>) /\ HasNumber(d)
           THEN /\ result' = [kind |-> "returned", number |-> CallerNumber(d).v]
                /\ pc' = "done"
                /\ UNCHANGED rings
           ELSE IF d # Str(<<>>) /\ HasRing(d)
                  THEN /\ rings' = rings + 1
                       /\ IF RingsReached(rings', max_rings_ignore_cid)
                            THEN /\ result' = [kind |-> "returned", number |-> <<>>]
                                 /\ pc' = "done"
                            ELSE UNCHANGED <<pc, result>>
                  ELSE UNCHANGED <<pc, result, rings>>
  /\ UNCHANGED <<rx0, tx, op, step, rets, max_rings_ignore_cid>>
  /\ UNCHANGED <<atframe, recvars, clock, playvars>>
  /\ UNCHANGED callvars

\* what the modem may deliver while a call is waited for
WaitLines ==
  { Bytes(<<"R", "I", "N", "G", CR, LF>>),
    Bytes(<<"N", "M", "B", "R", " ", "=", " ", "1", "2", CR, LF>>),
    Bytes(<<"N", "M", "B", "R", " ", "=", " ", CR, LF>>),
    Bytes(<<"N", "M", "B", "R", "=", "7", CR, LF>>),
    Bytes(<<"D", "A", "T", "E", " ", "=", " ", "0", "1", CR, LF>>),
    Bytes(<<CR, LF>>),
    Bytes(<<>>) }

InitWait ==
  /\ op = "wait_call" /\ pc = "loop" /\ step = 0 /\ rets = <<>>
  /\ result = [kind |-> "none", number |-> <<>>]
  /\ max_rings_ignore_cid \in 0..MaxRings
  /\ rings = 0
  /\ rx \in SeqsUpTo(WaitLines, MaxWaitLines)
  /\ rx0 = rx
  /\ tx = <<>>
  /\ at_pc = "idle" /\ cmd = Str(<<>>) /\ expected = OK
  /\ resp = Bytes(<<>>) /\ at_ret = FALSE
  /\ IdleRecord /\ IdleClock /\ IdlePlay
  /\ IdleCall

NextWait == wait_call_iter

SpecWait == InitWait /\ [][NextWait]_vars

----------------------------------------------------------------------------
(* __detect_end(data), lines 114-121 *)

DetectEndNever(d) == FALSE
DetectEndNoEtx(d) ==
  \/ Contains(d.v, <<DLE, "s">>)
  \/ Contains(d.v, <<DLE, "b">>)
detect_end(d) ==
  \/ Contains(d.v, <<DLE, "s">>)
  \/ Contains(d.v, <<DLE, "b">>)
  \/ Contains(d.v, <<DLE, ETX>>)

\* one call of __detect_end on the buffer det_data
detect_end_call ==
  /\ op = "__detect_end" /\ pc = "call"
  /\ det_ret' = detect_end(det_data)
  /\ pc' = "done"
  /\ UNCHANGED <<op, step, rets, result, det_data, number, sequence>>
  /\ UNCHANGED <<transport, atframe, waitvars, recvars, clock, playvars>>

\* the bytes the buffers are made of: the three marker letters after DLE,
\* DLE itself and one byte of audio
BufferBytes == {DLE, "s", "b", ETX, "a"}

InitDetect ==
  /\ op = "__detect_end" /\ pc = "call" /\ step = 0 /\ rets = <<>>
  /\ result = [kind |-> "none", number |-> <<>>]
  /\ det_data \in {Bytes(b) : b \in SeqsUpTo(BufferBytes, MaxBuffer)}
  /\ det_ret = FALSE
  /\ number = Str(<<>>) /\ sequence = Str(<<>>)
  /\ rx = <<>> /\ rx0 = <<>> /\ tx = <<>>
  /\ at_pc = "idle" /\ cmd = Str(<<>>) /\ expected = OK
  /\ resp = Bytes(<<>>) /\ at_ret = FALSE
  /\ IdleWait /\ IdleRecord /\ IdleClock /\ IdlePlay

NextDetect == detect_end_call

SpecDetect == InitDetect /\ [][NextDetect]_vars

----------------------------------------------------------------------------
(* hang_up(), lines 218-225 *)

HangUpOnlyAth == <<ATH>>
HangUpCommands == <<ATFCLASS8, ATH>>

\* lines 224, 225: the call self.__at(HangUpCommands[step]); the modem
\* answers the command or stays silent
hang_up_at ==
  /\ pc = "hang_up" /\ at_pc = "idle"
  /\ cmd' = HangUpCommands[step]
  /\ expected' = OK
  /\ at_pc' = "write"
  /\ \E kind \in {"good", "timeout"} : rx' = rx \o Reply(cmd', expected', kind)
  /\ UNCHANGED <<rx0, tx, resp, at_ret>>
  /\ UNCHANGED <<opframe, waitvars, recvars, clock, playvars>>
  /\ UNCHANGED callvars

\* lines 224-225: the returned value is dropped; after ATH hang_up returns:
\* to record_call (line 265), or to its caller when it was called directly
\* or from reject_call (line 216), which then returns as well
hang_up_next ==
  /\ pc = "hang_up" /\ at_pc = "ret"
  /\ rets' = Append(rets, at_ret)
  /\ at_pc' = "idle"
  /\ IF step = Len(HangUpCommands)
       THEN /\ pc' = IF op = "record_call" THEN "codec" ELSE "done"
            /\ UNCHANGED step
       ELSE step' = step + 1 /\ UNCHANGED pc
  /\ UNCHANGED <<op, result, cmd, expected, resp, at_ret>>
  /\ UNCHANGED <<transport, waitvars, recvars, clock, playvars>>
  /\ UNCHANGED callvars

----------------------------------------------------------------------------
(* record_call(date, number, timeout=7200), lines 240-277 *)

\* chunksize = 1024: read(chunksize) returns at most that many bytes
chunksize == 1024

\* lines 248-252: the commands and the responses they expect
RecordCommandsAllOk ==
  << <<ATFCLASS8, OK>>, <<ATVSM, OK>>, <<ATVLS1, OK>>, <<ATVSD, OK>>,
     <<ATVRX, OK>> >>
RecordCommands ==
  << <<ATFCLASS8, OK>>, <<ATVSM, OK>>, <<ATVLS1, OK>>, <<ATVSD, OK>>,
     <<ATVRX, CONNECT>> >>

\* b''.join(frames)
RECURSIVE join(_)
join(fs) == IF fs = <<>> THEN Bytes(<<>>) ELSE Plus(Head(fs), join(Tail(fs)))

\* lines 174 and 261: time.time() - start >= timeout
TimeoutReachedStrictly(t, s, limit) == t - s > limit
TimeoutReached(t, s, limit) == t - s >= limit

\* lines 248-252: the call self.__at(...) of the setup command number step
record_at ==
  /\ op = "record_call" /\ pc = "setup" /\ at_pc = "idle"
  /\ cmd' = RecordCommands[step][1]
  /\ expected' = RecordCommands[step][2]
  /\ at_pc' = "write"
  /\ UNCHANGED <<resp, at_ret>>
  /\ UNCHANGED <<transport, opframe, waitvars, recvars, clock, playvars>>
  /\ UNCHANGED callvars

\* what one read(chunksize) may return while the call is recorded
ChunkValues ==
  { Bytes(<<"a", "a">>),
    Bytes(<<"a", DLE, "s">>),
    Bytes(<<DLE, "b", "a">>),
    Bytes(<<"a", DLE, ETX, "a">>),
    Bytes(<<"s", DLE>>),
    Bytes(<<>>) }

\* lines 248-256: the returned value is dropped; after AT+VRX the loop is
\* set up (frames = [], start = time.time()) and the modem starts to stream
record_next ==
  /\ op = "record_call" /\ pc = "setup" /\ at_pc = "ret"
  /\ rets' = Append(rets, at_ret)
  /\ at_pc' = "idle"
  /\ IF step = Len(RecordCommands)
       THEN /\ pc' = "read"
            /\ frames' = <<>>
            /\ start' = now
            /\ \E stream \in SeqsUpTo(ChunkValues, MaxChunks) :
                 /\ \A i \in 1..Len(stream) : Len(stream[i].v) <= chunksize
                 /\ rx' = rx \o stream
            /\ rx0' = rx'
            /\ UNCHANGED step
       ELSE /\ step' = step + 1
            /\ UNCHANGED <<pc, frames, start, rx, rx0>>
  /\ UNCHANGED <<tx, op, result, cmd, expected, resp, at_ret>>
  /\ UNCHANGED <<nchunks, joined, now, timeout>>
  /\ UNCHANGED <<waitvars, playvars>>
  /\ UNCHANGED callvars

\* lines 257-264: one iteration of the read loop
record_read ==
  /\ op = "record_call" /\ pc = "read"
  /\ LET chunk == ReadValue(rx)
     IN  /\ rx' = ReadRest(rx)
         /\ nchunks' = nchunks + 1
         /\ \E dt \in ReadDurations(chunk) : now' = now + dt
         /\ IF detect_end(chunk)
              THEN pc' = "hang_up" /\ step' = 1 /\ UNCHANGED frames
              ELSE IF TimeoutReached(now', start, timeout)
                     THEN pc' = "hang_up" /\ step' = 1 /\ UNCHANGED frames
                     ELSE frames' = Append(frames, chunk) /\ UNCHANGED <<pc, step>>
  /\ UNCHANGED <<rx0, tx, op, rets, result, joined, start, timeout>>
  /\ UNCHANGED <<atframe, waitvars, playvars>>
  /\ UNCHANGED callvars

\* lines 266-277: the frames are joined and written as a wave file, which
\* is converted to mp3
record_codec ==
  /\ op = "record_call" /\ pc = "codec"
  /\ joined' = join(frames)
  /\ result' = [result EXCEPT !.kind = "written"]
  /\ pc' = "done"
  /\ UNCHANGED <<op, step, rets, frames, nchunks>>
  /\ UNCHANGED <<transport, atframe, waitvars, clock, playvars>>
  /\ UNCHANGED callvars

\* how the modem answers the five setup commands
RecordSetups ==
  { [i \in 1..5 |-> "good"],
    [i \in 1..5 |-> IF i = 1 THEN "timeout" ELSE IF i = 5 THEN "error" ELSE "stray"] }

InitRecord ==
  /\ op = "record_call" /\ pc = "setup" /\ step = 1 /\ rets = <<>>
  /\ result = [kind |-> "none", number |-> <<>>]
  /\ \E ks \in RecordSetups : rx = Script(RecordCommands, ks)
  /\ rx0 = rx
  /\ tx = <<>>
  /\ at_pc = "idle" /\ cmd = Str(<<>>) /\ expected = OK
  /\ resp = Bytes(<<>>) /\ at_ret = FALSE
  /\ frames = <<>> /\ nchunks = 0 /\ joined = Bytes(<<>>)
  /\ now = 0 /\ start = 0
  /\ \E k \in 0..MaxTimeout : timeout = k * SerialTimeoutMs
  /\ IdleWait /\ IdlePlay
  /\ IdleCall

NextRecord ==
  \/ record_at \/ record_next \/ record_read \/ record_codec
  \/ hang_up_at \/ hang_up_next
  \/ at_write \/ at_skip \/ at_echo \/ at_expected

SpecRecord == InitRecord /\ [][NextRecord]_vars

\* the program keeps running: a step that can be taken is taken
FairSpecRecord == SpecRecord /\ WF_vars(NextRecord)

----------------------------------------------------------------------------
(* play_audio_obj(wavobj, timeout=0), lines 156-175 *)

(* Audio data is modelled by its length: a bytes object of n frames (8-bit  *)
(* mono: one byte per frame) is [t |-> "bytes", len |-> n], and the str     *)
(* literal '' is [t |-> "str", len |-> 0].  Time is in milliseconds.        *)

EmptyStr == [t |-> "str", len |-> 0]

\* x != y on Python objects: objects of different types are never equal
NotEqual(x, y) == x.t # y.t \/ x.len # y.len

\* time.sleep(.06), in milliseconds
PacingMs == 60

\* wavobj.readframes(n): the next n frames, fewer (or none) at the end
readframes(w, n) ==
  [t |-> "bytes", len |-> IF w.nframes - w.pos < n THEN w.nframes - w.pos ELSE n]

\* the wave object after readframes(n)
AfterRead(w, n) == [w EXCEPT !.pos = w.pos + readframes(w, n).len]

\* wavobj.getnframes() / wavobj.getframerate() seconds, as the number of
\* milliseconds an elapsed time in whole milliseconds has to reach
DeclaredLengthMs(w) == (w.nframes * 1000 + w.framerate - 1) \div w.framerate

\* lines 163-165: default timeout, then the call self.__at('AT+VTX')
play_at ==
  /\ op = "play_audio_obj" /\ pc = "start" /\ at_pc = "idle"
  /\ timeout' = IF timeout = 0 THEN DeclaredLengthMs(wavobj) ELSE timeout
  /\ cmd' = ATVTX
  /\ expected' = OK
  /\ at_pc' = "write"
  /\ pc' = "vtx"
  /\ \E kind \in {"good", "stray", "timeout"} :
       rx' = rx \o Reply(cmd', expected', kind)
  /\ UNCHANGED <<rx0, tx, resp, at_ret, op, step, rets, result, now, start>>
  /\ UNCHANGED <<waitvars, recvars, playvars>>
  /\ UNCHANGED callvars

\* lines 165-169: the returned value is dropped; start_time = time.time(),
\* data = wavobj.readframes(chunksize)
play_first ==
  /\ op = "play_audio_obj" /\ pc = "vtx" /\ at_pc = "ret"
  /\ rets' = Append(rets, at_ret)
  /\ at_pc' = "idle"
  /\ start' = now
  /\ data' = readframes(wavobj, chunksize)
  /\ wavobj' = AfterRead(wavobj, chunksize)
  /\ pc' = "loop"
  /\ UNCHANGED <<op, step, result, cmd, expected, resp, at_ret, now, timeout>>
  /\ UNCHANGED <<transport, waitvars, recvars>>
  /\ UNCHANGED callvars

\* lines 170-175: the test of the while loop and one iteration of its body
play_iter ==
  /\ op = "play_audio_obj" /\ pc = "loop"
  /\ IF NotEqual(data, EmptyStr)
       THEN /\ tx' = Append(tx, data)
            /\ data' = readframes(wavobj, chunksize)
            /\ wavobj' = AfterRead(wavobj, chunksize)
            /\ \E jitter \in 0..MaxJitterMs : now' = now + PacingMs + jitter
            /\ IF TimeoutReached(now', start, timeout)
                 THEN pc' = "done"
                 ELSE UNCHANGED pc
       ELSE /\ pc' = "done"
            /\ UNCHANGED <<tx, data, wavobj, now>>
  /\ UNCHANGED <<rx, rx0, op, step, rets, result, start, timeout>>
  /\ UNCHANGED <<atframe, waitvars, recvars>>
  /\ UNCHANGED callvars

\* the wave objects played: 8000 frames per second, zero to three chunks
WaveLengths == {0, 1, chunksize, chunksize + 1, 2 * chunksize, 2 * chunksize + 476}

InitPlay ==
  /\ op = "play_audio_obj" /\ pc = "start" /\ step = 0 /\ rets = <<>>
  /\ result = [kind |-> "none", number |-> <<>>]
  /\ rx = <<>> /\ rx0 = <<>> /\ tx = <<>>
  /\ at_pc = "idle" /\ cmd = Str(<<>>) /\ expected = OK
  /\ resp = Bytes(<<>>) /\ at_ret = FALSE
  /\ \E n \in WaveLengths : wavobj = [nframes |-> n, framerate |-> 8000, pos |-> 0]
  /\ data = [t |-> "bytes", len |-> 0]
  /\ now = 0 /\ start = 0
  /\ \E k \in 0..MaxPlayTimeout : timeout = k * PacingMs
  /\ IdleWait /\ IdleRecord
  /\ IdleCall

NextPlay ==
  \/ play_at \/ play_first \/ play_iter
  \/ at_write \/ at_skip \/ at_echo \/ at_expected

SpecPlay == InitPlay /\ [][NextPlay]_vars

----------------------------------------------------------------------------
(* accept_call(), lines 143-154; dial(number), lines 227-238 *)

AcceptCommands == <<ATFCLASS8, ATVSM, ATVLS1, ATA>>

DialCommands(n) == <<ATFCLASS8, ATVSM, ATVLS1, ATVSD, Plus(ATD, n)>>

\* the commands of the operation o; the returned value of __at is dropped
\* after each of them (the calls are expression statements)
CallCommands(o, n) == IF o = "accept_call" THEN AcceptCommands ELSE DialCommands(n)

\* lines 150-153 and 234-238: the call self.__at(CallCommands[step])
call_at ==
  /\ op \in {"accept_call", "dial"} /\ pc = "commands" /\ at_pc = "idle"
  /\ cmd' = CallCommands(op, number)[step]
  /\ expected' = OK
  /\ at_pc' = "write"
  /\ UNCHANGED <<resp, at_ret>>
  /\ UNCHANGED <<transport, opframe, waitvars, recvars, clock, playvars>>
  /\ UNCHANGED callvars

\* whether a returned value of __at ends accept_call / dial: it never does
StopsAlways(r) == TRUE
StopsWhenFalse(r) == ~r
Stops(r) == FALSE

\* lines 150-154 and 234-238: the returned value is dropped and the next
\* command follows; after the last one the operation returns None
call_next ==
  /\ op \in {"accept_call", "dial"} /\ pc = "commands" /\ at_pc = "ret"
  /\ rets' = Append(rets, at_ret)
  /\ at_pc' = "idle"
  /\ IF Stops(at_ret) \/ step = Len(CallCommands(op, number))
       THEN pc' = "done" /\ UNCHANGED step
       ELSE step' = step + 1 /\ UNCHANGED pc
  /\ UNCHANGED <<op, result, cmd, expected, resp, at_ret>>
  /\ UNCHANGED <<transport, waitvars, recvars, clock, playvars>>
  /\ UNCHANGED callvars

----------------------------------------------------------------------------
(* reject_call(), lines 209-216 *)

\* line 215: the call self.__at('ATA')
reject_at ==
  /\ op = "reject_call" /\ pc = "commands" /\ at_pc = "idle"
  /\ cmd' = ATA
  /\ expected' = OK
  /\ at_pc' = "write"
  /\ UNCHANGED <<resp, at_ret>>
  /\ UNCHANGED <<transport, opframe, waitvars, recvars, clock, playvars>>
  /\ UNCHANGED callvars

\* lines 215-216: the returned value is dropped and self.hang_up() is called
reject_next ==
  /\ op = "reject_call" /\ pc = "commands" /\ at_pc = "ret"
  /\ rets' = Append(rets, at_ret)
  /\ at_pc' = "idle"
  /\ pc' = "hang_up" /\ step' = 1
  /\ UNCHANGED <<op, result, cmd, expected, resp, at_ret>>
  /\ UNCHANGED <<transport, waitvars, recvars, clock, playvars>>
  /\ UNCHANGED callvars

----------------------------------------------------------------------------
(* play_tones(sequence), lines 200-207 *)

\* ','.join(xs) on the characters
RECURSIVE JoinComma(_)
JoinComma(xs) ==
  IF xs = <<>> THEN <<>>
  ELSE IF Len(xs) = 1 THEN xs
  ELSE <<Head(xs), ",">> \o JoinComma(Tail(xs))

\* line 206: 'AT+VTS=' + ','.join(sequence)
TonesCommand(q) == Plus(ATVTS, Str(JoinComma(q.v)))

\* line 206: the call self.__at('AT+VTS=' + ','.join(sequence))
tones_at ==
  /\ op = "play_tones" /\ pc = "commands" /\ at_pc = "idle"
  /\ cmd' = TonesCommand(sequence)
  /\ expected' = OK
  /\ at_pc' = "write"
  /\ UNCHANGED <<resp, at_ret>>
  /\ UNCHANGED <<transport, opframe, waitvars, recvars, clock, playvars>>
  /\ UNCHANGED callvars

\* line 207: time.sleep(len(sequence)), in milliseconds
SleepMs(q) == 1000 * Len(q.v)

\* lines 206-207: the returned value is dropped, then the sleep
tones_sleep ==
  /\ op = "play_tones" /\ pc = "commands" /\ at_pc = "ret"
  /\ rets' = Append(rets, at_ret)
  /\ at_pc' = "idle"
  /\ now' = now + SleepMs(sequence)
  /\ pc' = "done"
  /\ UNCHANGED <<op, step, result, cmd, expected, resp, at_ret, start, timeout>>
  /\ UNCHANGED <<transport, waitvars, recvars, playvars>>
  /\ UNCHANGED callvars

----------------------------------------------------------------------------
(* The call operations, each run from its first line *)

\* how the modem may answer a command of a call operation: "late" is a reply
\* that comes after the read of the echo has timed out
CallReplyKinds == {"good", "error", "timeout", "late"}

CallReply(c, e, kind) ==
  IF kind = "late" THEN <<Bytes(<<>>)>> \o Reply(c, e, "good")
  ELSE Reply(c, e, kind)

\* the serial input made of one reply per command of cs, of the kinds ks
RECURSIVE CallScript(_, _)
CallScript(cs, ks) ==
  IF cs = <<>> THEN <<>>
  ELSE CallReply(Head(cs), OK, Head(ks)) \o CallScript(Tail(cs), Tail(ks))

\* the numbers dialled
DialDigits == {"1", "2"}
DialNumbers == {Str(n) : n \in SeqsUpTo(DialDigits, MaxDigits)}

\* the tone sequences played: tones the modem knows and one it does not
ToneSymbols == {"1", "#", "X"}
ToneSequences == {Str(q) : q \in SeqsUpTo(ToneSymbols, MaxTones)}

\* what an earlier operation may have left unread
Leftovers == {<<>>, <<ExpectedBytes(OK)>>, <<EchoBytes(ATA), ExpectedBytes(OK)>>}

InitCall ==
  /\ rets = <<>>
  /\ result = [kind |-> "none", number |-> <<>>]
  /\ \/ /\ op = "accept_call" /\ pc = "commands" /\ step = 1
        /\ number = Str(<<>>) /\ sequence = Str(<<>>)
        /\ \E ks \in [1..Len(AcceptCommands) -> CallReplyKinds] :
             rx = CallScript(AcceptCommands, ks)
     \/ /\ op = "dial" /\ pc = "commands" /\ step = 1
        /\ number \in DialNumbers /\ sequence = Str(<<>>)
        /\ \E ks \in [1..Len(DialCommands(number)) -> CallReplyKinds] :
             rx = CallScript(DialCommands(number), ks)
     \/ /\ op = "reject_call" /\ pc = "commands" /\ step = 1
        /\ number = Str(<<>>) /\ sequence = Str(<<>>)
        /\ \E kind \in CallReplyKinds : rx = CallReply(ATA, OK, kind)
     \/ /\ op = "hang_up" /\ pc = "hang_up" /\ step = 1
        /\ number = Str(<<>>) /\ sequence = Str(<<>>)
        /\ rx \in Leftovers
     \/ /\ op = "play_tones" /\ pc = "commands" /\ step = 1
        /\ number = Str(<<>>) /\ sequence \in ToneSequences
        /\ \E kind \in CallReplyKinds :
             rx = CallReply(TonesCommand(sequence), OK, kind)
  /\ rx0 = rx
  /\ tx = <<>>
  /\ at_pc = "idle" /\ cmd = Str(<<>>) /\ expected = OK
  /\ resp = Bytes(<<>>) /\ at_ret = FALSE
  /\ det_data = Bytes(<<>>) /\ det_ret = FALSE
  /\ IdleWait /\ IdleRecord /\ IdleClock /\ IdlePlay

NextCall ==
  \/ call_at \/ call_next
  \/ reject_at \/ reject_next
  \/ hang_up_at \/ hang_up_next
  \/ tones_at \/ tones_sleep
  \/ at_write \/ at_skip \/ at_echo \/ at_expected

SpecCall == InitCall /\ [][NextCall]_vars

----------------------------------------------------------------------------
(* The driver as a whole: one operation, run from its first line *)

Init ==
  \/ InitSend \/ InitCtor \/ InitWait \/ InitRecord \/ InitPlay
  \/ InitDetect \/ InitCall

Next ==
  \/ at_write \/ at_skip \/ at_echo \/ at_expected
  \/ init_open \/ init_at \/ init_check
  \/ wait_call_iter
  \/ record_at \/ record_next \/ record_read \/ record_codec
  \/ hang_up_at \/ hang_up_next
  \/ play_at \/ play_first \/ play_iter
  \/ detect_end_call
  \/ call_at \/ call_next \/ reject_at \/ reject_next
  \/ tones_at \/ tones_sleep

Spec == Init /\ [][Next]_vars

----------------------------------------------------------------------------
(* Properties of a single __at call (SpecSend) *)

\* the i-th value the serial input delivers: a queued value, or a timeout
Line(i) == IF i <= Len(rx0) THEN rx0[i] ELSE Bytes(<<>>)

StrayLines == {Bytes(<<CR, LF>>), Bytes(<<"O", "K", CR, LF>>)}

\* the number of leading lines of q that are exactly CR LF or OK CR LF
RECURSIVE NStray(_)
NStray(q) ==
  IF q = <<>> THEN 0
  ELSE IF Head(q) \in StrayLines THEN 1 + NStray(Tail(q)) ELSE 0

EchoLine == Bytes(cmd.v \o <<CR, CR, LF>>)
ResultLine == Bytes(expected.v \o <<CR, LF>>)

\* the values of q from position i on
From(q, i) == IF i > Len(q) THEN <<>> ELSE SubSeq(q, i, Len(q))

\* C1: with no stray line before the echo, __at returns True if and only if
\* the first line read is cmd + CR CR LF and the second is expected + CR LF;
\* any other first or second line makes it return False.
C1_SendTrueIffEchoAndResult ==
  (at_pc = "ret" /\ Line(1) \notin StrayLines)
    => (at_ret <=> (Line(1) = EchoLine /\ Line(2) = ResultLine))

C1_Witness ==
  /\ at_pc = "ret" /\ at_ret
  /\ expected = CONNECT
  /\ Line(1) = EchoLine /\ Line(2) = ResultLine

\* C2: k leading lines that are CR LF or OK CR LF are skipped, so the result
\* is the one of the input without them; once the echo has matched nothing
\* is skipped: the line right after the echo is the one compared with
\* expected + CR LF, and it is the last line read.
C2_SkipsOnlyBeforeEcho ==
  LET k == NStray(rx0)
  IN  at_pc = "ret" =>
        /\ at_ret <=> (Line(k + 1) = EchoLine /\ Line(k + 2) = ResultLine)
        /\ Line(k + 1) = EchoLine => rx = From(rx0, k + 3)

C2_Witness ==
  /\ at_pc = "ret" /\ ~at_ret
  /\ expected = CONNECT
  /\ NStray(rx0) = 1
  /\ Line(2) = EchoLine
  /\ Line(3) = Bytes(<<"O", "K", CR, LF>>)
  /\ rx = <<ResultLine>>

\* C3: when the first line that is neither CR LF nor OK CR LF differs from
\* cmd + CR CR LF, __at returns False and every line queued after that line
\* is still unread.
C3_MismatchReadsNothingFurther ==
  LET k == NStray(rx0)
  IN  (at_pc = "ret" /\ Line(k + 1) # EchoLine)
        => (at_ret = FALSE /\ rx = From(rx0, k + 2))

C3_Witness ==
  /\ at_pc = "ret" /\ ~at_ret
  /\ NStray(rx0) = 1
  /\ Line(2) = Bytes(cmd.v \o <<CR, LF>>)
  /\ rx = <<EchoLine, ResultLine>>

\* C4: a read that times out (returns b'') inside __at, in the skip loop, at
\* the echo or at the result line, is followed by nothing but the return of
\* False: no further read, no second write of the command, no other outcome.
C4_TimeoutReturnsFalse ==
  /\ [](Len(tx) <= 1)
  /\ [][(at_pc \in {"while", "expected"} /\ resp = Bytes(<<>>))
          => (at_pc' = "ret" /\ at_ret' = FALSE /\ rx' = rx /\ tx' = tx)]_vars

C4_Witness ==
  /\ at_pc = "ret" /\ ~at_ret
  /\ NStray(rx0) = 1
  /\ Line(2) = EchoLine
  /\ Line(3) = Bytes(<<>>)
  /\ resp = Bytes(<<>>)
  /\ rx = <<ResultLine>>

----------------------------------------------------------------------------
(* Properties of __init__ (SpecCtor) *)

AllTrue(q) == \A i \in 1..Len(q) : q[i] = TRUE

\* the six initialization commands as written to the port
C5_Writes ==
  << Bytes(<<"A", "T", "E", "1", CR>>),
     Bytes(<<"A", "T", CR>>),
     Bytes(<<"A", "T", "&", "F", "0", CR>>),
     Bytes(<<"A", "T", "V", "1", CR>>),
     Bytes(<<"A", "T", "E", "1", CR>>),
     Bytes(<<"A", "T", "+", "V", "C", "I", "D", "=", "1", CR>>) >>

\* C5: the constructor writes ATE1, AT, AT&F0, ATV1, ATE1, AT+VCID=1 in that
\* order, each expecting OK; it succeeds exactly when all six calls of __at
\* returned True, and the first call that returns False raises the
\* initialization error with no later command written.
C5_InitSequence ==
  /\ Len(tx) <= Len(C5_Writes)
  /\ tx = SubSeq(C5_Writes, 1, Len(tx))
  /\ at_pc # "idle" => expected = Str(<<"O", "K">>)
  /\ AllTrue(SubSeq(rets, 1, Len(rets) - 1))
  /\ (rets # <<>> /\ rets[Len(rets)] = FALSE)
       => (Len(tx) = Len(rets) /\ pc = "done"
           /\ result.kind = "CouldNotInitializeException")
  /\ pc = "done"
       => /\ result.kind \in {"constructed", "CouldNotInitializeException"}
          /\ result.kind = "constructed" <=> (Len(rets) = 6 /\ AllTrue(rets))

C5_Witness ==
  /\ pc = "done"
  /\ result.kind = "CouldNotInitializeException"
  /\ rets = <<TRUE, TRUE, FALSE>>
  /\ Len(tx) = 3
  /\ rx # <<>>

C5_WitnessConstructed == pc = "done" /\ result.kind = "constructed" /\ Len(tx) = 6

----------------------------------------------------------------------------
(* Properties of wait_call (SpecWait) *)

\* the lines read so far
Consumed == SubSeq(rx0, 1, Len(rx0) - Len(rx))

NmbrLine(l) == Contains(l.v, <<"N", "M", "B", "R">>)
RingLine(l) == Contains(l.v, <<"R", "I", "N", "G">>)

RECURSIVE CountRings(_)
CountRings(q) ==
  IF q = <<>> THEN 0
  ELSE (IF RingLine(Head(q)) THEN 1 ELSE 0) + CountRings(Tail(q))

NoNmbrRead == \A i \in 1..Len(Consumed) : ~NmbrLine(Consumed[i])

LastRead == Consumed[Len(Consumed)]

\* C6 as stated: a line containing NMBR makes wait_call return at once with
\* a non-empty number, also for 'NMBR = ' followed by no digits.
C6_Original ==
  (Consumed # <<>> /\ NmbrLine(LastRead))
    => (pc = "done" /\ result.kind = "returned" /\ result.number # <<>>)

\* C6 amended: wait_call returns as soon as it reads a line containing NMBR,
\* whatever the ring count, and reads no line after it; the number returned
\* is the line without CR LF and without 'NMBR = ', which is empty for the
\* line 'NMBR = ' followed by no digits and non-empty for the other lines.
C6_ReturnsAtNmbrLine ==
  /\ \A i \in 1..(Len(Consumed) - 1) : ~NmbrLine(Consumed[i])
  /\ (Consumed # <<>> /\ NmbrLine(LastRead))
       => /\ pc = "done" /\ result.kind = "returned"
          /\ result.number = Remove(Remove(LastRead.v, <<CR, LF>>),
                                    <<"N", "M", "B", "R", " ", "=", " ">>)
          /\ LastRead = Bytes(<<"N", "M", "B", "R", " ", "=", " ", "1", "2", CR, LF>>)
               => result.number = <<"1", "2">>
          /\ LastRead = Bytes(<<"N", "M", "B", "R", "=", "7", CR, LF>>)
               => result.number = <<"N", "M", "B", "R", "=", "7">>
          /\ result.number = <<>>
               <=> LastRead = Bytes(<<"N", "M", "B", "R", " ", "=", " ", CR, LF>>)

C6_Witness ==
  /\ pc = "done" /\ result.kind = "returned"
  /\ max_rings_ignore_cid = 3 /\ rings = 2
  /\ Len(Consumed) = 3
  /\ LastRead = Bytes(<<"N", "M", "B", "R", " ", "=", " ", CR, LF>>)
  /\ result.number = <<>>
  /\ rx # <<>>

Max(a, b) == IF a >= b THEN a ELSE b

\* C7 as stated: with no NMBR line, wait_call returns at the read at which
\* the number of RING lines seen becomes max_rings_ignore_cid, also for 0.
C7_Original ==
  (pc = "done" /\ NoNmbrRead) => CountRings(Consumed) = max_rings_ignore_cid

\* C7 amended: with no NMBR line read, wait_call returns the empty number
\* exactly at the read of the RING line that brings the number of RING lines
\* seen to max(max_rings_ignore_cid, 1), and keeps reading while that number
\* is below it: with max_rings_ignore_cid = 0 it returns at the first RING
\* line, as with 1, not before a RING line is read.
C7_ReturnsAtThreshold ==
  NoNmbrRead =>
    /\ rings = CountRings(Consumed)
    /\ pc = "loop" => CountRings(Consumed) < Max(max_rings_ignore_cid, 1)
    /\ pc = "done"
         => /\ CountRings(Consumed) = Max(max_rings_ignore_cid, 1)
            /\ RingLine(LastRead)
            /\ result = [kind |-> "returned", number |-> <<>>]

C7_Witness ==
  /\ pc = "done" /\ NoNmbrRead
  /\ max_rings_ignore_cid = 2
  /\ Len(Consumed) = 4 /\ CountRings(Consumed) = 2
  /\ result = [kind |-> "returned", number |-> <<>>]

----------------------------------------------------------------------------
(* Properties of record_call (SpecRecord, FairSpecRecord) *)

\* the value the i-th read(chunksize) of the loop returned
ChunkRead(i) == IF i <= Len(rx0) THEN rx0[i] ELSE Bytes(<<>>)

\* a chunk holding DLE s, DLE b or DLE ETX
Marker(c) ==
  \E m \in {<<"DLE", "s">>, <<"DLE", "b">>, <<"DLE", "ETX">>} : Contains(c.v, m)

\* the bytes of the first n chunks read, in order
RECURSIVE ChunksUpTo(_)
ChunksUpTo(n) == IF n = 0 THEN <<>> ELSE ChunksUpTo(n - 1) \o ChunkRead(n).v

LoopLeft == op = "record_call" /\ pc \in {"hang_up", "codec", "done"}

\* C8: when the stream ends with a marker in chunk N, the bytes handed to
\* the codec are the chunks 1..N read, in order, chunk N included in full.
C8_Original ==
  (op = "record_call" /\ pc = "done" /\ nchunks >= 1 /\ Marker(ChunkRead(nchunks)))
    => joined = Bytes(ChunksUpTo(nchunks))

\* C9: the read loop of record_call ends.  A chunk holding a marker is the
\* last chunk read; with no marker the loop goes on only while the elapsed
\* time is below timeout and is left at the first read after which it is
\* not (with timeout = 0, after exactly one read); the file is then written
\* and record_call returns.
C9_LoopInvariant ==
  /\ \A i \in 1..(nchunks - 1) : ~Marker(ChunkRead(i))
  /\ (op = "record_call" /\ pc = "read" /\ nchunks >= 1)
       => (~Marker(ChunkRead(nchunks)) /\ now - start < timeout)
  /\ LoopLeft
       => /\ nchunks >= 1
          /\ Marker(ChunkRead(nchunks)) \/ now - start >= timeout
          /\ timeout = 0 => nchunks = 1
  /\ (op = "record_call" /\ pc = "hang_up" /\ step = 1 /\ at_pc = "idle")
       => rx = From(rx0, nchunks + 1)
  /\ (op = "record_call" /\ pc = "done") => result.kind = "written"

C9_RecordTerminates ==
  /\ []C9_LoopInvariant
  /\ <>(pc = "done" /\ result.kind = "written")

C9_Witness ==
  /\ op = "record_call" /\ pc = "done" /\ result.kind = "written"
  /\ nchunks = 2 /\ Len(rx0) = 3
  /\ ~Marker(ChunkRead(1)) /\ Marker(ChunkRead(2))
  /\ now - start < timeout

C9_WitnessTimeout ==
  /\ op = "record_call" /\ pc = "done" /\ result.kind = "written"
  /\ timeout = 0 /\ nchunks = 1 /\ Len(rx0) = 3
  /\ \A i \in 1..3 : ~Marker(ChunkRead(i))

----------------------------------------------------------------------------
(* Properties of play_audio_obj (SpecPlay) *)

\* the number of readframes(1024) calls that return data
SourceChunks == (wavobj.nframes + 1023) \div 1024

\* the calls of write() made by the loop (tx[1] is the AT+VTX command)
AudioWrites == Len(tx) - 1

C11_PlayDeadline ==
  /\ [][(op = "play_audio_obj" /\ pc = "start" /\ timeout = 0)
          => /\ timeout' * wavobj.framerate >= wavobj.nframes * 1000
             /\ (timeout' - 1) * wavobj.framerate < wavobj.nframes * 1000]_vars
  /\ [][(op = "play_audio_obj" /\ pc = "start" /\ timeout # 0)
          => timeout' = timeout]_vars
  /\ []((op = "play_audio_obj" /\ pc = "loop" /\ AudioWrites >= 1)
          => now - start < timeout)
  /\ []((op = "play_audio_obj" /\ pc = "done")
          => /\ now - start >= timeout
             /\ now - start <= timeout + PacingMs + MaxJitterMs
             /\ AudioWrites >= 1)

C11_Witness ==
  /\ op = "play_audio_obj" /\ pc = "done"
  /\ wavobj.nframes = 2048 /\ timeout = 256
  /\ now - start >= 256 /\ now - start < 256 + 60
  /\ AudioWrites = 5

\* C12: __detect_end(data) is true exactly when data holds, at some offset
\* (the last two bytes included), DLE followed at once by 's', 'b' or ETX;
\* it is false for the empty buffer, for a buffer that ends in a lone DLE and
\* when DLE and those bytes are there but not adjacent in that order.
MarkerAt(d, i) == d[i] = DLE /\ d[i + 1] \in {"s", "b", ETX}

C12_DetectsExactlyMarkers ==
  (op = "__detect_end" /\ pc = "done")
    => (det_ret <=> \E i \in 1..(Len(det_data.v) - 1) : MarkerAt(det_data.v, i))

C12_Witness ==
  /\ op = "__detect_end" /\ pc = "done"
  /\ det_data.v = <<"a", DLE, ETX>> /\ det_ret

C12_WitnessNotAdjacent ==
  /\ op = "__detect_end" /\ pc = "done"
  /\ det_data.v = <<DLE, "a", "s">> /\ ~det_ret

\* the bytes written for the commands cs, in order
Written(cs) == [i \in 1..Len(cs) |-> CommandBytes(cs[i])]

IsPrefix(a, b) == Len(a) <= Len(b) /\ a = SubSeq(b, 1, Len(a))

\* C13: accept_call writes exactly AT+FCLASS=8, AT+VSM=1,8000,0,0, AT+VLS=1,
\* ATA, in that order, and dial(number) writes exactly AT+FCLASS=8,
\* AT+VSM=1,8000,0,0, AT+VLS=1, AT+VSD=128,50, ATD<number>; every command is
\* written whatever the earlier ones returned, and no error is surfaced.
C13_AcceptWrites == Written(<<ATFCLASS8, ATVSM, ATVLS1, ATA>>)

C13_DialWrites ==
  Written(<<ATFCLASS8, ATVSM, ATVLS1, ATVSD, Plus(ATD, number)>>)

C13_FixedSequences ==
  /\ op = "accept_call" =>
       /\ IsPrefix(tx, C13_AcceptWrites)
       /\ pc = "done" => (tx = C13_AcceptWrites /\ Len(rets) = 4)
       /\ result.kind = "none"
  /\ op = "dial" =>
       /\ IsPrefix(tx, C13_DialWrites)
       /\ pc = "done" => (tx = C13_DialWrites /\ Len(rets) = 5)
       /\ result.kind = "none"

C13_Witness ==
  /\ op = "dial" /\ pc = "done" /\ number.v = <<"1", "2">>
  /\ rets = <<FALSE, TRUE, FALSE, TRUE, TRUE>>
  /\ Len(tx) = 5

C13_WitnessAccept ==
  /\ op = "accept_call" /\ pc = "done"
  /\ rets = <<FALSE, FALSE, FALSE, FALSE>>
  /\ Len(tx) = 4

\* The driver keeps no session field: the state of the session is read off
\* the last command written.  It is Idle when that command is ATH.
SessionIdle == tx # <<>> /\ tx[Len(tx)] = CommandBytes(ATH)

\* C14: hang_up, whatever was left from before, writes AT+FCLASS=8 and then
\* ATH (the second whatever the first returned) and leaves the session Idle;
\* reject_call writes ATA and then that sequence, ATA, AT+FCLASS=8, ATH, the
\* hang-up being attempted also when ATA failed.
C14_HangUpWrites == Written(<<ATFCLASS8, ATH>>)

C14_RejectWrites == Written(<<ATA, ATFCLASS8, ATH>>)

C14_HangUpAlways ==
  /\ op = "hang_up" =>
       /\ IsPrefix(tx, C14_HangUpWrites)
       /\ pc = "done" => (tx = C14_HangUpWrites /\ Len(rets) = 2 /\ SessionIdle)
  /\ op = "reject_call" =>
       /\ IsPrefix(tx, C14_RejectWrites)
       /\ pc = "done" => (tx = C14_RejectWrites /\ Len(rets) = 3 /\ SessionIdle)

C14_Witness ==
  /\ op = "reject_call" /\ pc = "done"
  /\ rets[1] = FALSE /\ Len(tx) = 3 /\ SessionIdle

C14_WitnessHangUp ==
  /\ op = "hang_up" /\ pc = "done"
  /\ rx0 # <<>> /\ rets[1] = FALSE /\ Len(tx) = 2 /\ SessionIdle

\* the symbols of the modem's DTMF tones
DtmfSymbols ==
  {"0", "1", "2", "3", "4", "5", "6", "7", "8", "9", "*", "#",
   "A", "B", "C", "D"}

ValidSequence(q) == \A i \in 1..Len(q.v) : q.v[i] \in DtmfSymbols

\* C15: play_tones validates its sequence before transmission: AT+VTS is
\* written only when every symbol of the sequence is one of 0-9, *, #, A-D;
\* for a valid sequence a single AT+VTS=<symbols joined by commas> is written
\* and the call then blocks for one second per tone.
C15_Original ==
  op = "play_tones" =>
    /\ tx # <<>> => ValidSequence(sequence)
    /\ (pc = "done" /\ ValidSequence(sequence)) =>
         /\ tx = <<CommandBytes(Plus(ATVTS, Str(JoinComma(sequence.v))))>>
         /\ now = 1000 * Len(sequence.v)

\* the line the next iteration of wait_call reads is neither a NMBR line nor
\* a RING line: another line, an empty line or a read timeout (b'')
NextReadIsOther ==
  ~NmbrLine(ReadValue(rx)) /\ ~RingLine(ReadValue(rx))

\* C16 as stated: wait_call ends only through one of its two exit conditions
\* or a read timeout, and a read that times out (readline returns nothing)
\* ends wait_call, the timeout being propagated, instead of the loop going
\* on to read.
C16_Original ==
  op = "wait_call" =>
    /\ pc = "done" =>
         (Consumed # <<>> /\ (NmbrLine(LastRead) \/ RingLine(LastRead)
                              \/ LastRead = Bytes(<<>>)))
    /\ (Consumed # <<>> /\ LastRead = Bytes(<<>>)) => pc = "done"

\* C16 amended: wait_call ends only through one of its two exit conditions,
\* at the read of a NMBR line or of a RING line; every other read, a line
\* with neither NMBR nor RING as well as a read that timed out and returned
\* nothing, leaves the ring counter and the result as they were and the loop
\* goes on to the next read.
C16_EndsOnlyAtExitLines ==
  /\ []((op = "wait_call" /\ pc = "done")
          => (Consumed # <<>> /\ (NmbrLine(LastRead) \/ RingLine(LastRead))))
  /\ [][(op = "wait_call" /\ pc = "loop" /\ NextReadIsOther)
          => (pc' = "loop" /\ rings' = rings /\ result' = result
              /\ rx' = ReadRest(rx))]_vars

C16_Witness ==
  /\ op = "wait_call" /\ pc = "loop"
  /\ Len(Consumed) = 3
  /\ Consumed[1] = Bytes(<<"R", "I", "N", "G", CR, LF>>)
  /\ Consumed[2] = Bytes(<<>>)
  /\ Consumed[3] = Bytes(<<"D", "A", "T", "E", " ", "=", " ", "0", "1", CR, LF>>)
  /\ rings = 1 /\ max_rings_ignore_cid = 2

\* The driver keeps no mode field either: the mode of the modem is read off
\* the commands written.  The modem is in voice-streaming mode from an
\* AT+VTX or AT+VRX that it has accepted (the command's __at returned True)
\* until the next mode-setting command AT+FCLASS or AT+VLS.
EntersVoice(i) ==
  /\ tx[i] \in {CommandBytes(ATVTX), CommandBytes(ATVRX)}
  /\ i <= Len(rets) /\ rets[i]

SetsCommandMode(i) == tx[i] \in {CommandBytes(ATFCLASS8), CommandBytes(ATVLS1)}

\* the mode the modem is in when the j-th write is made
VoiceModeBefore(j) ==
  \E i \in 1..(j - 1) :
    EntersVoice(i) /\ \A k \in (i + 1)..(j - 1) : ~SetsCommandMode(k)

\* the j-th write is an AT text command: AT ... CR
IsTextCommand(j) ==
  /\ Len(tx[j].v) >= 3
  /\ tx[j].v[1] = "A" /\ tx[j].v[2] = "T"
  /\ tx[j].v[Len(tx[j].v)] = CR

\* C17: the modem is in exactly one of command mode and voice-streaming
\* mode, the mode changes only through the mode-setting commands, and no AT
\* text command is written while the modem is in voice-streaming mode.
C17_Original ==
  op = "record_call" =>
    \A j \in 1..Len(tx) : IsTextCommand(j) => ~VoiceModeBefore(j)

\* the number of commands of the running accept_call / dial, the last of
\* which is the answer (ATA) or dial (ATD<number>) command
NCommands == IF op = "accept_call" THEN 4 ELSE 5

AnswerOrDial ==
  IF op = "accept_call" THEN CommandBytes(ATA)
  ELSE CommandBytes(Plus(ATD, number))

SetupFailed == \E i \in 1..(NCommands - 1) : i <= Len(rets) /\ ~rets[i]

\* the session is in a call: the answer / dial command was written and the
\* modem accepted it (its __at returned True)
InCall ==
  /\ op \in {"accept_call", "dial"}
  /\ Len(rets) = NCommands /\ rets[NCommands]
  /\ Len(tx) = NCommands /\ tx[NCommands] = AnswerOrDial

\* C18 as stated: when some setup send of accept_call or dial returns false
\* the session goes back to Idle and never reaches InCall: the answer / dial
\* command does not take the session into a call.
C18_Original ==
  (op \in {"accept_call", "dial"} /\ SetupFailed) => ~InCall

\* C18 amended: a setup send that returns false does not end accept_call or
\* dial and does not return the session to Idle: the commands after it, the
\* answer / dial command included, are still written, and the operation ends
\* only after the answer / dial command, which takes the session into a call
\* when the modem accepts it.
C18_FailureDoesNotStop ==
  (op \in {"accept_call", "dial"} /\ SetupFailed) =>
    /\ pc = "done" =>
         /\ Len(rets) = NCommands
         /\ Len(tx) = NCommands /\ tx[NCommands] = AnswerOrDial
         /\ rets[NCommands] => InCall
    /\ pc # "done" => Len(rets) < NCommands
    /\ ~SessionIdle

C18_Witness ==
  /\ op = "accept_call" /\ pc = "done"
  /\ rets = <<FALSE, TRUE, TRUE, TRUE>>
  /\ InCall

\* C19: record_call writes AT+FCLASS=8, AT+VSM=1,8000,0,0, AT+VLS=1,
\* AT+VSD=128,50 and AT+VRX (which waits for CONNECT), in that order, before
\* the first chunk is read, starts to read whatever these returned, and on
\* either exit of the loop hangs up exactly once (AT+FCLASS=8, ATH), after
\* the last chunk was read and before the recorded bytes go to the codec.
C19_RecordWrites ==
  Written(<<ATFCLASS8, ATVSM, ATVLS1, ATVSD, ATVRX, ATFCLASS8, ATH>>)

C19_SetupReadHangUp ==
  /\ [](op = "record_call" =>
          /\ IsPrefix(tx, C19_RecordWrites)
          /\ (at_pc # "idle" /\ cmd = ATVRX) => expected = CONNECT
          /\ (at_pc # "idle" /\ cmd # ATVRX) => expected = OK
          /\ pc = "setup" => (nchunks = 0 /\ Len(tx) <= 5)
          /\ pc = "read" => (Len(tx) = 5 /\ Len(rets) = 5)
          /\ pc = "hang_up" => (nchunks >= 1 /\ Len(tx) \in 5..7
                                /\ result.kind = "none"
                                /\ joined = Bytes(<<>>))
          /\ pc \in {"codec", "done"} => (Len(tx) = 7 /\ Len(rets) = 7)
          /\ result.kind = "written" => pc = "done")
  /\ [][(op = "record_call" /\ pc # "read") => nchunks' = nchunks]_vars

C19_Witness ==
  /\ op = "record_call" /\ pc = "done" /\ result.kind = "written"
  /\ rets[1] = FALSE /\ rets[5] = FALSE
  /\ nchunks = 2 /\ tx = C19_RecordWrites

\* the commands of the running accept_call / dial
SentCommands ==
  IF op = "accept_call" THEN <<ATFCLASS8, ATVSM, ATVLS1, ATA>>
  ELSE <<ATFCLASS8, ATVSM, ATVLS1, ATVSD, Plus(ATD, number)>>

\* the modem's correct answer to the command c: its echo and OK
Answer(c) == <<Bytes(c.v \o <<CR, CR, LF>>), Bytes(<<"O", "K", CR, LF>>)>>

RECURSIVE Answers(_)
Answers(cs) == IF cs = <<>> THEN <<>> ELSE Answer(Head(cs)) \o Answers(Tail(cs))

\* the serial input in which every command is answered correctly, but the
\* answer to the i-th command comes only after the read of its echo has
\* timed out
LateInput(cs, i) ==
  Answers(SubSeq(cs, 1, i - 1)) \o <<Bytes(<<>>)>> \o Answers(SubSeq(cs, i, Len(cs)))

\* C20: __at never flushes or resynchronises the input.  When the send of a
\* command A returns false at the echo check and the modem's answer to A
\* comes afterwards, the answer stays queued: the next send, of a different
\* command B, reads A's echo where it expects its own and returns false
\* although the modem answers B correctly, and so does every send after it
\* (the skip loop takes away only the bare OK and empty lines).
C20_ShiftPersists ==
  op \in {"accept_call", "dial"} =>
    \A i \in 1..Len(SentCommands) :
      rx0 = LateInput(SentCommands, i) =>
        /\ \A j \in 1..Len(rets) : rets[j] = (j < i)
        /\ (Len(rets) = i /\ at_pc = "idle") =>
             rx = Answers(SubSeq(SentCommands, i, Len(SentCommands)))
        /\ (Len(rets) > i /\ at_pc = "idle") =>
             rx = <<Bytes(<<"O", "K", CR, LF>>)>>
                  \o Answers(SubSeq(SentCommands, Len(rets), Len(SentCommands)))

C20_Witness ==
  /\ op = "accept_call" /\ pc = "done"
  /\ rx0 = LateInput(SentCommands, 1)
  /\ rets = <<FALSE, FALSE, FALSE, FALSE>>
  /\ rx = <<Bytes(<<"O", "K", CR, LF>>)>> \o Answer(ATA)

====
